---- MODULE Spec2Model ----
(***************************************************************************)
(* The TodoList component of src/src/components/TodoList.tsx as a state    *)
(* machine: the React state of the component, one action per event         *)
(* handler, and the memoised derived list sortedAndFilteredTodos.          *)
(*                                                                         *)
(* A JavaScript string is a sequence of one-character strings.  A Date is  *)
(* represented by its time value; an absent dueDate is the empty sequence  *)
(* and a present one the one-element sequence holding its time value.      *)
(***************************************************************************)
EXTENDS Integers, Sequences, FiniteSets, TLC

VARIABLES todos, newTodo, priority, category, dueDate, notes, tags,
          filter, searchQuery, sortBy, view, toast, now, deleted

vars == <<todos, newTodo, priority, category, dueDate, notes, tags,
          filter, searchQuery, sortBy, view, toast, now, deleted>>

(***************************************************************************)
(* Bounds of the model.                                                    *)
(***************************************************************************)
\* The largest number of tasks the collection holds in the model.
MaxTodos == 2
\* The clock runs over 0 .. MaxNow (milliseconds since the page was loaded).
MaxNow == 1
\* The largest number of tasks in the specifications of the search and of the
\* sort.
MaxSearchTodos == 2
MaxSortTodos == 3

(***************************************************************************)
(* Strings.                                                                *)
(***************************************************************************)
\* The white space that String.prototype.trim removes (the part of it the
\* model's alphabet holds).
WhiteSpace == {" ", "\t"}

\* String.prototype.toLowerCase on one character of the model's alphabet.
ToLowerChar(c) ==
  CASE c = "A" -> "a"
    [] c = "B" -> "b"
    [] c = "C" -> "c"
    [] c = "U" -> "u"
    [] OTHER -> c

\* String.prototype.toLowerCase.
ToLowerCase(s) == [i \in 1..Len(s) |-> ToLowerChar(s[i])]

RECURSIVE TrimStart(_)
\* Drops the leading white space.
TrimStart(s) ==
  IF s = <<>> THEN <<>>
  ELSE IF Head(s) \in WhiteSpace THEN TrimStart(Tail(s)) ELSE s

RECURSIVE TrimEnd(_)
\* Drops the trailing white space.
TrimEnd(s) ==
  IF s = <<>> THEN <<>>
  ELSE IF s[Len(s)] \in WhiteSpace THEN TrimEnd(SubSeq(s, 1, Len(s) - 1)) ELSE s

\* String.prototype.trim.
Trim(s) == TrimEnd(TrimStart(s))

RECURSIVE SplitFrom(_, _, _, _)
\* The scan of String.prototype.split: cur is the piece being read, acc the
\* pieces already closed by a separator.
SplitFrom(s, sep, cur, acc) ==
  IF s = <<>> THEN Append(acc, cur)
  ELSE IF Head(s) = sep THEN SplitFrom(Tail(s), sep, <<>>, Append(acc, cur))
  ELSE SplitFrom(Tail(s), sep, Append(cur, Head(s)), acc)

\* String.prototype.split with a one-character separator.
Split(s, sep) == SplitFrom(s, sep, <<>>, <<>>)

\* String.prototype.includes: q occurs in s as a contiguous substring.
Includes(s, q) ==
  \E i \in 0..(Len(s) - Len(q)) : SubSeq(s, i + 1, i + Len(q)) = q

RECURSIVE DigitsOf(_)
\* The decimal digits of a natural number, most significant first.
DigitsOf(n) ==
  LET d == <<"0", "1", "2", "3", "4", "5", "6", "7", "8", "9">>[(n % 10) + 1]
  IN IF n < 10 THEN <<d>> ELSE Append(DigitsOf(n \div 10), d)

\* Number.prototype.toString (radix 10) of a clock reading.
NumberToString(n) == DigitsOf(n)

(***************************************************************************)
(* The values of the component's state.                                    *)
(***************************************************************************)
\* An absent dueDate (undefined).
NoDate == <<>>

\* The ids Date.now().toString() gives for the clock readings 0 .. n.
IdsUpTo(n) == {NumberToString(t) : t \in 0..n}

\* The ids within the clock range of the general model.
Ids == IdsUpTo(MaxNow)

\* toast() calls of the component; NoToast is the state before any call.
NoToast == [title |-> "", description |-> "", variant |-> ""]
ErrorToast ==
  [title |-> "Error", description |-> "Todo text cannot be empty",
   variant |-> "destructive"]
AddedToast ==
  [title |-> "Success", description |-> "Todo added successfully",
   variant |-> "default"]
DeletedToast ==
  [title |-> "Success", description |-> "Todo deleted successfully",
   variant |-> "default"]

(***************************************************************************)
(* addTodo.                                                                *)
(***************************************************************************)
\* The guard as it would be without the trim.
IsEmptyTextNoTrim(text) == text = <<>>

\* The guard of addTodo: !newTodo.trim()
IsEmptyText(text) == Trim(text) = <<>>

\* The tags as they would be without the filter of the empty ones.
ParseTagsKeepsEmpty(raw) ==
  LET pieces == Split(raw, ",")
  IN [i \in 1..Len(pieces) |-> Trim(pieces[i])]

\* tags.split(',').map(tag => tag.trim()).filter(tag => tag !== '')
ParseTags(raw) ==
  LET pieces == Split(raw, ",")
      trimmed == [i \in 1..Len(pieces) |-> Trim(pieces[i])]
  IN SelectSeq(trimmed, LAMBDA tag : tag # <<>>)

\* The object literal of addTodo, built at clock reading t.
NewTodoRecord(t, text, prio, cat, due, nts, rawTags) ==
  [id |-> NumberToString(t), text |-> text, completed |-> FALSE,
   priority |-> prio, category |-> cat, dueDate |-> due, notes |-> nts,
   tags |-> ParseTags(rawTags)]

\* The new task put first: [todo, ...todos]
PrependTodo(ts, todo) == <<todo>> \o ts

\* [...todos, todo]
AppendTodo(ts, todo) == Append(ts, todo)

(***************************************************************************)
(* toggleTodo and deleteTodo.                                              *)
(***************************************************************************)
\* The toggle as it would be if it set the flag: completed: true
ToggleTodosSetsCompleted(ts, id) ==
  [i \in 1..Len(ts) |->
     IF ts[i].id = id THEN [ts[i] EXCEPT !.completed = TRUE] ELSE ts[i]]

\* todos.map(todo => todo.id === id ? {...todo, completed: !todo.completed} : todo)
ToggleTodos(ts, id) ==
  [i \in 1..Len(ts) |->
     IF ts[i].id = id THEN [ts[i] EXCEPT !.completed = ~ts[i].completed]
     ELSE ts[i]]

\* todos.filter(todo => todo.id !== id)
DeleteTodos(ts, id) == SelectSeq(ts, LAMBDA todo : todo.id # id)

(***************************************************************************)
(* sortedAndFilteredTodos.                                                 *)
(***************************************************************************)
\* The completion filter with the negation of its active branch left out.
PassesFilterNoNegation(todo, f) ==
  IF f = "active" THEN todo.completed
  ELSE IF f = "completed" THEN todo.completed
  ELSE TRUE

\* The first filter callback: the completion filter.
PassesFilter(todo, f) ==
  IF f = "active" THEN ~todo.completed
  ELSE IF f = "completed" THEN todo.completed
  ELSE TRUE

\* The search as it would be on the text alone.
MatchesSearchTextOnly(todo, q) ==
  Includes(ToLowerCase(todo.text), ToLowerCase(q))

\* The second filter callback: the search on the text or on some tag.
MatchesSearch(todo, q) ==
  \/ Includes(ToLowerCase(todo.text), ToLowerCase(q))
  \/ \E i \in 1..Len(todo.tags) :
       Includes(ToLowerCase(todo.tags[i]), ToLowerCase(q))

\* todos.filter(...).filter(...)
Filtered(ts, f, q) ==
  SelectSeq(SelectSeq(ts, LAMBDA todo : PassesFilter(todo, f)),
            LAMBDA todo : MatchesSearch(todo, q))

\* const priorityOrder = { high: 0, medium: 1, low: 2 }
PriorityOrder == [high |-> 0, medium |-> 1, low |-> 2]

\* The comparator with the operands of the priority difference exchanged.
CompareDescending(a, b, sb) ==
  IF sb = "priority" THEN PriorityOrder[b.priority] - PriorityOrder[a.priority]
  ELSE IF sb = "date" /\ a.dueDate # NoDate /\ b.dueDate # NoDate
       THEN a.dueDate[1] - b.dueDate[1]
  ELSE 0

\* The comparator handed to sort.
Compare(a, b, sb) ==
  IF sb = "priority" THEN PriorityOrder[a.priority] - PriorityOrder[b.priority]
  ELSE IF sb = "date" /\ a.dueDate # NoDate /\ b.dueDate # NoDate
       THEN a.dueDate[1] - b.dueDate[1]
  ELSE 0

RECURSIVE InsertSorted(_, _, _)
\* x put into the sorted s behind the last element that does not compare
\* greater than it.
InsertSorted(s, x, sb) ==
  IF s = <<>> THEN <<x>>
  ELSE IF Compare(s[Len(s)], x, sb) > 0
       THEN Append(InsertSorted(SubSeq(s, 1, Len(s) - 1), x, sb), s[Len(s)])
  ELSE Append(s, x)

RECURSIVE InsertionSort(_, _)
\* Array.prototype.sort of SpiderMonkey on a short array: the insertion sort.
InsertionSort(s, sb) ==
  IF s = <<>> THEN <<>>
  ELSE InsertSorted(InsertionSort(SubSeq(s, 1, Len(s) - 1), sb), s[Len(s)], sb)

\* The elements of s in reverse order.
Reverse(s) == [i \in 1..Len(s) |-> s[Len(s) + 1 - i]]

\* The run that starts a list of two elements or more is strictly descending.
RunDescends(s, sb) == Compare(s[2], s[1], sb) < 0

\* The length of the run that starts s: the elements that keep descending
\* strictly, or that keep not descending.
RunLength(s, sb) ==
  LET Continues(idx) ==
        IF RunDescends(s, sb) THEN Compare(s[idx], s[idx - 1], sb) < 0
        ELSE Compare(s[idx], s[idx - 1], sb) >= 0
  IN CHOOSE r \in 2..Len(s) :
       /\ \A idx \in 3..r : Continues(idx)
       /\ r = Len(s) \/ ~Continues(r + 1)

\* s with its first run made ascending: a descending run is reversed.
MakeRun(s, sb) ==
  IF RunDescends(s, sb)
  THEN Reverse(SubSeq(s, 1, RunLength(s, sb)))
         \o SubSeq(s, RunLength(s, sb) + 1, Len(s))
  ELSE s

RECURSIVE BinarySearch(_, _, _, _, _)
\* The place of pivot among a[left + 1 .. right]: behind the elements it
\* does not compare less than, found by bisection.
BinarySearch(a, pivot, left, right, sb) ==
  IF left >= right THEN left
  ELSE LET mid == left + ((right - left) \div 2)
       IN IF Compare(pivot, a[mid + 1], sb) < 0
          THEN BinarySearch(a, pivot, left, mid, sb)
          ELSE BinarySearch(a, pivot, mid + 1, right, sb)

RECURSIVE BinaryInsertionSort(_, _, _)
\* The elements behind the first start ones put, one by one, into the
\* sorted first part of a.
BinaryInsertionSort(a, start, sb) ==
  IF start >= Len(a) THEN a
  ELSE LET pivot == a[start + 1]
           left == BinarySearch(a, pivot, 0, start, sb)
       IN BinaryInsertionSort(
            SubSeq(a, 1, left) \o <<pivot>> \o SubSeq(a, left + 1, start)
              \o SubSeq(a, start + 2, Len(a)),
            start + 1, sb)

\* Array.prototype.sort of V8 on a short array (TimSort below its minimal run
\* length): the first run is made, the rest is put in by binary insertion.
TimSort(s, sb) ==
  IF Len(s) < 2 THEN s
  ELSE BinaryInsertionSort(MakeRun(s, sb), RunLength(s, sb), sb)

RECURSIVE Merge(_, _, _)
\* The merge of two sorted lists; the right element goes first only when it
\* compares less.
Merge(left, right, sb) ==
  IF right = <<>> THEN left
  ELSE IF left = <<>> THEN right
  ELSE IF Compare(Head(right), Head(left), sb) < 0
       THEN <<Head(right)>> \o Merge(left, Tail(right), sb)
  ELSE <<Head(left)>> \o Merge(Tail(left), right, sb)

RECURSIVE MergePass(_, _, _)
\* One pass over src: the neighbouring blocks of width elements merged in pairs.
MergePass(src, width, sb) ==
  IF Len(src) <= width THEN src
  ELSE LET mid == width
           end == IF 2 * width < Len(src) THEN 2 * width ELSE Len(src)
       IN Merge(SubSeq(src, 1, mid), SubSeq(src, mid + 1, end), sb)
            \o MergePass(SubSeq(src, end + 1, Len(src)), width, sb)

RECURSIVE MergeSortFrom(_, _, _)
\* The passes of the merge sort from blocks of width elements on.
MergeSortFrom(src, width, sb) ==
  IF width >= Len(src) THEN src
  ELSE MergeSortFrom(MergePass(src, width, sb), 2 * width, sb)

\* Array.prototype.sort of JavaScriptCore: the bottom-up merge sort.
MergeSort(s, sb) == MergeSortFrom(s, 1, sb)

\* The results filtered.sort(comparator) gives in the engines the page runs
\* in.  Under a consistent comparator they are one and the same list; under
\* an inconsistent one the order is implementation-defined, and the engines
\* may differ.
SortOutcomes(s, sb) ==
  {InsertionSort(s, sb), TimSort(s, sb), MergeSort(s, sb)}

\* The values the useMemo callback can return.
ViewOutcomes(ts, f, q, sb) == SortOutcomes(Filtered(ts, f, q), sb)

(***************************************************************************)
(* The state after the first render.                                       *)
(***************************************************************************)
Init ==
  /\ todos = <<>>
  /\ newTodo = <<>>
  /\ priority = "medium"
  /\ category = "personal"
  /\ filter = "all"
  /\ searchQuery = <<>>
  /\ dueDate = NoDate
  /\ notes = <<>>
  /\ tags = <<>>
  /\ sortBy = "date"
  /\ view = <<>>
  /\ toast = NoToast
  /\ now = 0
  /\ deleted = {}

(***************************************************************************)
(* The event handlers.  An action that changes one of the dependencies of  *)
(* the useMemo (todos, filter, searchQuery, sortBy) ends with the          *)
(* recomputation of sortedAndFilteredTodos; every other action keeps the   *)
(* memoised value.                                                         *)
(***************************************************************************)
Recompute == view' \in ViewOutcomes(todos', filter', searchQuery', sortBy')

\* onChange of the text input.
SetNewTodo(v) ==
  /\ newTodo' = v
  /\ UNCHANGED <<todos, priority, category, dueDate, notes, tags, filter,
                 searchQuery, sortBy, view, toast, now, deleted>>

\* onValueChange of the priority select.
SetPriority(v) ==
  /\ priority' = v
  /\ UNCHANGED <<todos, newTodo, category, dueDate, notes, tags, filter,
                 searchQuery, sortBy, view, toast, now, deleted>>

\* onValueChange of the category select.
SetCategory(v) ==
  /\ category' = v
  /\ UNCHANGED <<todos, newTodo, priority, dueDate, notes, tags, filter,
                 searchQuery, sortBy, view, toast, now, deleted>>

\* onSelect of the calendar.
SetDueDate(v) ==
  /\ dueDate' = v
  /\ UNCHANGED <<todos, newTodo, priority, category, notes, tags, filter,
                 searchQuery, sortBy, view, toast, now, deleted>>

\* onChange of the tags input.
SetTags(v) ==
  /\ tags' = v
  /\ UNCHANGED <<todos, newTodo, priority, category, dueDate, notes, filter,
                 searchQuery, sortBy, view, toast, now, deleted>>

\* onChange of the notes input.
SetNotes(v) ==
  /\ notes' = v
  /\ UNCHANGED <<todos, newTodo, priority, category, dueDate, tags, filter,
                 searchQuery, sortBy, view, toast, now, deleted>>

\* onChange of the search input (and the click on its clear button).
SetSearchQuery(v) ==
  /\ searchQuery' = v
  /\ UNCHANGED <<todos, newTodo, priority, category, dueDate, notes, tags,
                 filter, sortBy, toast, now, deleted>>
  /\ IF v = searchQuery THEN UNCHANGED view ELSE Recompute

\* onClick of the All, Active and Completed buttons.
SetFilter(v) ==
  /\ filter' = v
  /\ UNCHANGED <<todos, newTodo, priority, category, dueDate, notes, tags,
                 searchQuery, sortBy, toast, now, deleted>>
  /\ IF v = filter THEN UNCHANGED view ELSE Recompute

\* onValueChange of the sort select.
SetSortBy(v) ==
  /\ sortBy' = v
  /\ UNCHANGED <<todos, newTodo, priority, category, dueDate, notes, tags,
                 filter, searchQuery, toast, now, deleted>>
  /\ IF v = sortBy THEN UNCHANGED view ELSE Recompute

\* onSubmit of the form, with t the value Date.now() returns; now is the
\* clock's last reading.  The collection is capped at maxTodos tasks.
AddTodoAt(t, maxTodos) ==
  IF IsEmptyText(newTodo)
  THEN /\ toast' = ErrorToast
       /\ UNCHANGED <<todos, newTodo, priority, category, dueDate, notes,
                      tags, filter, searchQuery, sortBy, view, now, deleted>>
  ELSE /\ Len(todos) < maxTodos
       /\ todos' = AppendTodo(todos,
                      NewTodoRecord(t, newTodo, priority, category, dueDate,
                                    notes, tags))
       /\ now' = t
       /\ newTodo' = <<>>
       /\ dueDate' = NoDate
       /\ notes' = <<>>
       /\ tags' = <<>>
       /\ toast' = AddedToast
       /\ UNCHANGED <<priority, category, filter, searchQuery, sortBy, deleted>>
       /\ Recompute

\* onSubmit of the form under a wall clock that may not have advanced since
\* its last reading.
AddTodo == \E t \in now..MaxNow : AddTodoAt(t, MaxTodos)

\* onCheckedChange of a task's checkbox.
ToggleTodo(id) ==
  /\ todos' = ToggleTodos(todos, id)
  /\ UNCHANGED <<newTodo, priority, category, dueDate, notes, tags, filter,
                 searchQuery, sortBy, toast, now, deleted>>
  /\ Recompute

\* onClick of a task's delete button.  deleted records the ids of the tasks
\* it has removed.
DeleteTodo(id) ==
  /\ todos' = DeleteTodos(todos, id)
  /\ toast' = DeletedToast
  /\ deleted' = IF \E i \in 1..Len(todos) : todos[i].id = id
                THEN deleted \cup {id} ELSE deleted
  /\ UNCHANGED <<newTodo, priority, category, dueDate, notes, tags, filter,
                 searchQuery, sortBy, now>>
  /\ Recompute

(***************************************************************************)
(* The inputs of the handlers.                                             *)
(***************************************************************************)
Priorities == {"low", "medium", "high"}
Filters == {"all", "active", "completed"}
SortKeys == {"date", "priority"}

\* The example of the tags field: "a, b ,, c"
TagsExample == <<"a", ",", " ", "b", " ", ",", ",", " ", "c">>

\* The texts of the text input: empty, white space only, and a task's text.
Texts == {<<>>, <<" ">>, <<"\t", " ">>, <<"a", "b">>}

(***************************************************************************)
(* The component with every handler, and a wall clock that need not have   *)
(* advanced between two readings; the fields of the form that no handler's *)
(* control flow reads keep their initial values.  The id handed to          *)
(* toggleTodo and deleteTodo ranges over the ids of the clock range, those  *)
(* of no task included.                                                    *)
(***************************************************************************)
Next ==
  \/ \E v \in Texts : SetNewTodo(v)
  \/ \E v \in {"medium"} : SetPriority(v)
  \/ \E v \in {"personal"} : SetCategory(v)
  \/ \E v \in {NoDate} : SetDueDate(v)
  \/ \E v \in {<<>>} : SetTags(v)
  \/ \E v \in {<<>>} : SetNotes(v)
  \/ \E v \in {<<>>, <<"B">>} : SetSearchQuery(v)
  \/ \E v \in Filters : SetFilter(v)
  \/ \E v \in SortKeys : SetSortBy(v)
  \/ AddTodo
  \/ \E id \in Ids : ToggleTodo(id)
  \/ \E id \in Ids : DeleteTodo(id)

Spec == Init /\ [][Next]_vars

(***************************************************************************)
(* The component under the inputs of the form's text fields.  In this and  *)
(* following specifications the clock has advanced by the time of each     *)
(* submission.                                                             *)
(***************************************************************************)
\* The values of the tags input: empty, the example, separators only,
\* "Ub, " with an upper-case letter, ",a" and a tag with white space inside
\* and around it.
TagInputs ==
  {<<>>, TagsExample, <<" ", ",">>, <<"U", "b", ",", " ">>, <<",", "a">>,
   <<"\t", "a", " ", "b", " ">>}

TagsNext ==
  \/ \E v \in {<<"A", "b">>} : SetNewTodo(v)
  \/ \E v \in TagInputs : SetTags(v)
  \/ \E v \in {"personal", "work"} : SetCategory(v)
  \/ \E v \in {<<>>, <<"n">>} : SetNotes(v)
  \/ AddTodoAt(now + 1, MaxSearchTodos)

TagsSpec == Init /\ [][TagsNext]_vars

(***************************************************************************)
(* The component under the inputs of the search: a text, a tag and queries *)
(* in both letter cases, tasks of both completion states.                  *)
(***************************************************************************)
SearchNext ==
  \/ \E v \in {<<"A", "b">>} : SetNewTodo(v)
  \/ \E v \in {<<>>, <<"U", "b", ",", " ">>, TagsExample} : SetTags(v)
  \/ \E v \in {<<>>, <<"u", "b">>, <<"a", "B">>, <<"C">>} : SetSearchQuery(v)
  \/ \E v \in Filters : SetFilter(v)
  \/ AddTodoAt(now + 1, MaxSearchTodos)
  \/ \E id \in IdsUpTo(MaxSearchTodos) : ToggleTodo(id)

SearchSpec == Init /\ [][SearchNext]_vars

(***************************************************************************)
(* The component under the inputs of the sort by priority.                 *)
(***************************************************************************)
PriorityNext ==
  \/ \E v \in {<<"a", "b">>} : SetNewTodo(v)
  \/ \E v \in Priorities : SetPriority(v)
  \/ \E v \in SortKeys : SetSortBy(v)
  \/ \E v \in Filters : SetFilter(v)
  \/ AddTodoAt(now + 1, MaxSortTodos)
  \/ \E id \in IdsUpTo(MaxSortTodos) : ToggleTodo(id)

PrioritySpec == Init /\ [][PriorityNext]_vars

(***************************************************************************)
(* The component under the inputs of the sort by due date.                 *)
(***************************************************************************)
\* The values of the calendar: no date, and the time values of two days.
DateInputs == {NoDate, <<1>>, <<2>>}

DateNext ==
  \/ \E v \in {<<"a", "b">>} : SetNewTodo(v)
  \/ \E v \in DateInputs : SetDueDate(v)
  \/ \E v \in SortKeys : SetSortBy(v)
  \/ AddTodoAt(now + 1, MaxSortTodos)

DateSpec == Init /\ [][DateNext]_vars

(***************************************************************************)
(* The properties.                                                         *)
(***************************************************************************)
\* s holds nothing but white space (the empty string included).
IsBlank(s) == \A i \in 1..Len(s) : s[i] \in WhiteSpace

\* The task t is an element of the list v.
InView(t, v) == \E k \in 1..Len(v) : v[k] = t

\* The search queries the properties of the view range over.
Queries == {<<>>, <<"B">>, <<"C">>, <<"u", "b">>, <<"a", "B">>}

\* C1: no two tasks of the collection share an id.
C1_UniqueIds ==
  \A i, j \in 1..Len(todos) : i # j => todos[i].id # todos[j].id

\* C2: a create whose text is empty or white space only leaves the
\* collection as it was and shows the validation error.
C2_EmptyTextRejected ==
  [][(AddTodo /\ IsBlank(newTodo))
       => (todos' = todos /\ toast' = ErrorToast)]_vars

\* A white-space-only text has been rejected while the collection holds a task.
C2_Witness ==
  /\ toast = ErrorToast
  /\ newTodo # <<>>
  /\ IsBlank(newTodo)
  /\ Len(todos) >= 1

\* C3: a create whose text is not blank grows the collection by exactly one
\* task, at the end, with completed = false; the tasks that were there
\* are unchanged and in the same order.
C3_CreateAppends ==
  [][(AddTodo /\ ~IsBlank(newTodo))
       => /\ Len(todos') = Len(todos) + 1
          /\ SubSeq(todos', 1, Len(todos)) = todos
          /\ todos'[Len(todos')].completed = FALSE
          /\ todos'[Len(todos')].text = newTodo]_vars

\* A task has been appended behind a completed task of another id.
C3_Witness ==
  /\ toast = AddedToast
  /\ Len(todos) >= 2
  /\ todos[1].completed
  /\ ~todos[Len(todos)].completed
  /\ todos[1].id # todos[Len(todos)].id

\* C4: a toggle(id) step followed by toggle(id) gives back the collection
\* of before the step, whatever the id; a toggle of an absent id changes
\* nothing.
C4_ToggleInvolution ==
  [][\A id \in Ids :
       ToggleTodo(id)
         => /\ ToggleTodos(todos', id) = todos
            /\ ToggleTodos(ToggleTodos(todos, id), id) = todos
            /\ (\A i \in 1..Len(todos) : todos[i].id # id) => todos' = todos
            /\ \A i \in 1..Len(todos) :
                 todos[i].id # id => todos'[i] = todos[i]]_vars

\* One of two tasks has been toggled.
C4_Witness ==
  /\ Len(todos) >= 2
  /\ \E i, j \in 1..Len(todos) :
       todos[i].completed /\ ~todos[j].completed /\ todos[i].id # todos[j].id

\* C5: a view never holds a task with the id of a task that delete has
\* removed.
C5_DeletedNeverViewed ==
  \A id \in deleted : \A k \in 1..Len(view) : view[k].id # id

\* The active view holds no completed task and the completed view no
\* active one, for every search query and sort key.
ViewsRespectFilter ==
  /\ view \in ViewOutcomes(todos, filter, searchQuery, sortBy)
  /\ \A q \in Queries, sb \in SortKeys :
       /\ \A v \in ViewOutcomes(todos, "active", q, sb) :
            \A k \in 1..Len(v) : ~v[k].completed
       /\ \A v \in ViewOutcomes(todos, "completed", q, sb) :
            \A k \in 1..Len(v) : v[k].completed

\* The filter that keeps the task t.
FilterOf(t) == IF t.completed THEN "completed" ELSE "active"

\* A toggle takes each task of the id out of the view of its old completion
\* state and puts it into the view of the new one.
ToggleMovesTask(id) ==
  \A i \in 1..Len(todos) :
    todos[i].id = id
      => \A sb \in SortKeys :
           /\ \A v \in ViewOutcomes(todos, FilterOf(todos[i]), <<>>, sb) :
                InView(todos[i], v)
           /\ \A v \in ViewOutcomes(todos', FilterOf(todos[i]), <<>>, sb) :
                ~InView(todos'[i], v)
           /\ FilterOf(todos'[i]) # FilterOf(todos[i])
           /\ \A v \in ViewOutcomes(todos', FilterOf(todos'[i]), <<>>, sb) :
                InView(todos'[i], v)

\* C7: in every state, for every search query and sort key, the active
\* view holds no completed task and the completed view no active one, and
\* a toggle moves the task from the one view into the other.
C7_FilterViews ==
  /\ []ViewsRespectFilter
  /\ [][\A id \in Ids : ToggleTodo(id) => ToggleMovesTask(id)]_vars

\* The completed view is shown and holds a task, while another task is active.
C7_Witness ==
  /\ filter = "completed"
  /\ Len(view) >= 1
  /\ Len(view) < Len(todos)

(***************************************************************************)
(* The tags of a task, stated on the positions of the raw input.           *)
(***************************************************************************)
\* The positions at which a piece of raw starts: the first one, and the one
\* behind each comma.
PieceStarts(raw) ==
  {i \in 1..(Len(raw) + 1) : i = 1 \/ raw[i - 1] = ","}

\* The last position of the piece that starts at lo (lo - 1 for an empty piece).
PieceEnd(raw, lo) ==
  CHOOSE hi \in (lo - 1)..Len(raw) :
    /\ hi = Len(raw) \/ raw[hi + 1] = ","
    /\ \A k \in lo..hi : raw[k] # ","

\* The positions of the piece at lo that hold no white space.
Solid(raw, lo) == {k \in lo..PieceEnd(raw, lo) : raw[k] \notin WhiteSpace}

\* The piece at lo without the white space around it.
TrimmedPiece(raw, lo) ==
  LET first == CHOOSE k \in Solid(raw, lo) : \A m \in Solid(raw, lo) : k <= m
      last == CHOOSE k \in Solid(raw, lo) : \A m \in Solid(raw, lo) : k >= m
  IN SubSeq(raw, first, last)

\* The trimmed non-empty pieces of raw, in input order.
ExpectedTags(raw) ==
  LET S == {lo \in PieceStarts(raw) : Solid(raw, lo) # {}}
      nth(k) == CHOOSE lo \in S : Cardinality({x \in S : x < lo}) = k - 1
  IN [k \in 1..Cardinality(S) |-> TrimmedPiece(raw, nth(k))]

\* No task has an empty or white-space-only tag, nor one with a comma or
\* with white space at an end.
TagsWellFormed ==
  \A i \in 1..Len(todos) : \A k \in 1..Len(todos[i].tags) :
    LET tag == todos[i].tags[k]
    IN /\ tag # <<>>
       /\ ~IsBlank(tag)
       /\ tag[1] \notin WhiteSpace
       /\ tag[Len(tag)] \notin WhiteSpace
       /\ \A m \in 1..Len(tag) : tag[m] # ","

\* C6: the tags of a created task are the trimmed non-empty pieces of the raw
\* tags input split on commas, in input order ("a, b ,, c" gives a, b, c
\* and the empty input no tag); no task ever has an empty or
\* white-space-only tag.
C6_TagsParsed ==
  /\ []TagsWellFormed
  /\ [][(AddTodoAt(now + 1, MaxSearchTodos) /\ ~IsBlank(newTodo))
          => /\ todos'[Len(todos')].tags = ExpectedTags(tags)
             /\ tags = TagsExample
                  => todos'[Len(todos')].tags = <<(<<"a">>), (<<"b">>), (<<"c">>)>>
             /\ tags = <<>> => todos'[Len(todos')].tags = <<>>]_vars

\* A task made from "a, b ,, c" stands beside one whose tag has white
\* space inside it.
C6_Witness ==
  /\ toast = AddedToast
  /\ \E i, j \in 1..Len(todos) :
       /\ todos[i].tags = <<(<<"a">>), (<<"b">>), (<<"c">>)>>
       /\ todos[j].tags = <<(<<"a", " ", "b">>)>>

(***************************************************************************)
(* The search, stated letter by letter.                                    *)
(***************************************************************************)
\* The letters of the model's alphabet that differ in case only.
CasePairs == {<<"A", "a">>, <<"B", "b">>, <<"C", "c">>, <<"U", "u">>}

\* c and d are the same character up to case.
SameLetter(c, d) == c = d \/ <<c, d>> \in CasePairs \/ <<d, c>> \in CasePairs

\* q occurs in s as a substring, up to case.
OccursIgnoringCase(q, s) ==
  \E off \in 0..(Len(s) - Len(q)) :
    \A k \in 1..Len(q) : SameLetter(s[off + k], q[k])

\* q occurs, up to case, in the text of t or in one of its tags.
Matches(t, q) ==
  \/ OccursIgnoringCase(q, t.text)
  \/ \E k \in 1..Len(t.tags) : OccursIgnoringCase(q, t.tags[k])

\* t passes the completion filter f.
KeptBy(f, t) ==
  \/ f = "all"
  \/ f = "active" /\ ~t.completed
  \/ f = "completed" /\ t.completed

\* C8: a task that passes the completion filter is in the view if and only
\* if the query occurs, up to case, in its text or in one of its tags; the
\* empty query keeps every such task.
C8_SearchTextOrTag ==
  /\ \A i \in 1..Len(todos) :
       KeptBy(filter, todos[i])
         => (InView(todos[i], view) <=> Matches(todos[i], searchQuery))
  /\ \A f \in Filters, q \in Queries, sb \in SortKeys :
       \A v \in ViewOutcomes(todos, f, q, sb) :
         \A i \in 1..Len(todos) :
           KeptBy(f, todos[i])
             => /\ InView(todos[i], v) <=> Matches(todos[i], q)
                /\ q = <<>> => InView(todos[i], v)

\* The query "ub" is shown: one task is in the view by its tag Ub alone, in
\* another letter case, and another task is left out.
C8_Witness ==
  /\ searchQuery = <<"u", "b">>
  /\ filter = "all"
  /\ Len(view) = 1
  /\ Len(todos) = 2
  /\ ~OccursIgnoringCase(searchQuery, view[1].text)
  /\ \E k \in 1..Len(view[1].tags) : view[1].tags[k] = <<"U", "b">>

(***************************************************************************)
(* The sort.                                                               *)
(***************************************************************************)
\* The tasks of v with priority p, in the order of v.
OfPriority(v, p) == SelectSeq(v, LAMBDA t : t.priority = p)

\* v lists the high, then the medium, then the low tasks of the list s, each
\* group in the order of s.
PriorityOrdered(v, s) ==
  v = OfPriority(s, "high") \o OfPriority(s, "medium") \o OfPriority(s, "low")

\* C9: under the sort key priority the view lists every high task before
\* every medium one and every medium one before every low one, and the
\* tasks of one priority in the order of the collection.
C9_PrioritySort ==
  /\ sortBy = "priority"
       => PriorityOrdered(view, Filtered(todos, filter, searchQuery))
  /\ \A f \in Filters, q \in Queries :
       \A v \in ViewOutcomes(todos, f, q, "priority") :
         /\ PriorityOrdered(v, Filtered(todos, f, q))
         /\ \A i, j \in 1..Len(v) :
              (i < j /\ v[j].priority = "high") => v[i].priority = "high"
         /\ \A i, j \in 1..Len(v) :
              (i < j /\ v[j].priority = "medium") => v[i].priority # "low"

\* The view by priority reorders a collection of three tasks, two of them of
\* one priority.
C9_Witness ==
  /\ sortBy = "priority"
  /\ filter = "all"
  /\ Len(view) = 3
  /\ view # todos
  /\ todos[1].priority = "low" /\ todos[2].priority = "high"
  /\ todos[3].priority = "low" /\ todos[1].id # todos[3].id
  /\ view[2] = todos[1] /\ view[3] = todos[3]

\* C10: under the sort key date, of two tasks of the view that both have a
\* dueDate the one with the earlier dueDate stands first.
C10_DateSort ==
  sortBy = "date"
    => \A i, j \in 1..Len(view) :
         (i < j /\ view[i].dueDate # NoDate /\ view[j].dueDate # NoDate)
           => view[i].dueDate[1] <= view[j].dueDate[1]

====
